---- MODULE Spec2Model ----
(***************************************************************************)
(* Model of the moveset persistence layer of professor-oak:                *)
(*   bot/cogs/db.py        DatabaseManager (SQLite table `pokemon`)        *)
(*   bot/cogs/commands.py  PokemonCommands.create_pokemon_set              *)
(* Strings are sequences of one-character strings so that LOWER(), strip() *)
(* and replace() are computed, not assumed.                                *)
(***************************************************************************)
EXTENDS Integers, Sequences, FiniteSets, TLC

\* ------------------------------------------------------------------ bounds
MaxRecords == 2
MaxSets == 2
MaxTasks == 2

\* ----------------------------------------------------------------- strings
\* SQLite's built-in LOWER() folds the 26 ASCII letters only (db.py:148).
SqlLowerChar(c) ==
    CASE c = "A" -> "a"
      [] c = "B" -> "b"
      [] OTHER -> c

SqlLower(s) == [i \in DOMAIN s |-> SqlLowerChar(s[i])]

\* Python's str.lower() folds every cased code point (commands.py:63).
PyLowerChar(c) ==
    CASE c = "A" -> "a"
      [] c = "B" -> "b"
      [] c = "E_ACUTE" -> "e_acute"
      [] OTHER -> c

PyLower(s) == [i \in DOMAIN s |-> PyLowerChar(s[i])]

PyUpperChar(c) ==
    CASE c = "a" -> "A"
      [] c = "b" -> "B"
      [] c = "e_acute" -> "E_ACUTE"
      [] c = "x" -> "X"
      [] c = "y" -> "Y"
      [] c = "z" -> "Z"
      [] OTHER -> c

\* a character that has a case
PyIsCased(c) == PyUpperChar(c) # c \/ PyLowerChar(c) # c

\* Python's str.title(): the first cased character of every word in upper
\* case, the others in lower case (commands.py:136, 161, 188, 207).
PyTitle(s) ==
    [i \in DOMAIN s |->
        IF i = 1 \/ ~PyIsCased(s[i - 1]) THEN PyUpperChar(s[i]) ELSE PyLowerChar(s[i])]

\* str.replace(old, new) for one-character old and new.
Replace(s, old, new) == [i \in DOMAIN s |-> IF s[i] = old THEN new ELSE s[i]]

RECURSIVE LStrip(_)
LStrip(s) ==
    IF s # <<>> /\ Head(s) = " " THEN LStrip(Tail(s)) ELSE s

RECURSIVE RStrip(_)
RStrip(s) ==
    IF s # <<>> /\ s[Len(s)] = " " THEN RStrip(SubSeq(s, 1, Len(s) - 1)) ELSE s

\* str.strip()
Strip(s) == RStrip(LStrip(s))

\* ------------------------------------------------------------ input values
tX == <<"x">>
tYZ == <<"y", "-", "z">>
tEmpty == <<>>
tHyphen == <<"-">>

Args1 == <<tX, tX, tX, tX, tYZ>>
Args2 == <<tYZ, tYZ, tX, tX, tX>>

BadTokens == {tEmpty, tHyphen}

\* argument tuples of the set command: two well-formed ones, the first with
\* its item, its first or its last move corrupted, and the two wrong lengths
ArgLists ==
    {Args1, Args2}
    \cup {[Args1 EXCEPT ![k] = b] : k \in {2, 5}, b \in BadTokens}
    \cup {[Args1 EXCEPT ![1] = tEmpty]}
    \cup {SubSeq(Args1, 1, 4), Args1 \o <<tX>>}

Set1 == [item |-> <<"x">>, moves |-> <<tX, tX, tX, <<"y", " ", "z">> >>]
Set2 == [item |-> <<"y", " ", "z">>, moves |-> << <<"y", " ", "z">>, tX, tX, tX>>]
NewSets == {Set1, Set2}

DexNames == {<<"a">>, <<"A">>, <<"e_acute">>}
QueryNames == {<<"a">>, <<"A">>, <<"e_acute">>, <<"E_ACUTE">>}
Ids == {1, 2}
Indices == (0 - 1)..MaxSets

BasePath == <<"b">>
RelPaths == {<<"s", "\\", "1">>, <<"s", "/", "2">>}

\* os.path.join(base_path, relative_path) for a relative second argument
Join(base, rel) == base \o <<"/">> \o rel

\* data["image_path"].replace("\\", "/") joined to base_path
AbsolutePath(base, image_path) == Join(base, Replace(image_path, "\\", "/"))

AllFiles == {AbsolutePath(BasePath, p) : p \in RelPaths}

Records == [name : DexNames, id : Ids, image_path : RelPaths]

RECURSIVE SeqsUpTo(_, _)
SeqsUpTo(S, n) ==
    IF n = 0 THEN {<<>>}
    ELSE LET shorter == SeqsUpTo(S, n - 1)
         IN shorter \cup {Append(q, x) : q \in {r \in shorter : Len(r) = n - 1}, x \in S}

\* a JSON object has one value per key: the names of a dataset are distinct
Datasets ==
    {d \in SeqsUpTo(Records, MaxRecords) :
        \A i, j \in DOMAIN d : i # j => d[i].name # d[j].name}

\* catalogs whose i-th record has id i and an existing sprite
StoreDatasets ==
    {d \in Datasets :
        \A i \in DOMAIN d : d[i].id = i /\ d[i].image_path = <<"s", "\\", "1">>}

\* ------------------------------------------------------------------- state
\* pokemon      rows of table `pokemon`, in rowid (= id) order
\* files        sprite files that exist on disk
\* national_dex records of bot/data/national_dex.json, in file order
\* last         the most recently completed call, with the store before it
\* tasks        coroutines of the event loop (concurrent add_pokemon_set)
\* running      the task holding the event loop, 0 when it is free
\* connection   the manager's shared _connection/_cursor pair
\* boot         the process from Config to the end of setup_hook
VARIABLES pokemon, files, national_dex, last, tasks, running, connection, boot

vars == <<pokemon, files, national_dex, last, tasks, running, connection, boot>>

\* self._connection = None, self._cursor = None (db.py:20-21, 47-48)
Closed == [open |-> FALSE]

\* no process has been started
NoBoot == [pc |-> "none"]

\* ------------------------------------------------------- the store, db.py
\* json.dumps of a list of {"item": ..., "moves": [...]} objects: the text
\* column holds one <<item, moves>> pair per set, in list order
JsonDumps(sets) == [i \in DOMAIN sets |-> <<sets[i].item, sets[i].moves>>]

\* json.loads of the random_sets column
JsonLoads(text) == [i \in DOMAIN text |-> [item |-> text[i][1], moves |-> text[i][2]]]

\* the literal "[]" the loader stores and the column's DEFAULT
EmptyJsonList == <<>>

\* vars(new_set) of the PokemonSet dataclass
Vars(new_set) == [item |-> new_set.item, moves |-> new_set.moves]

NotFound == [found |-> FALSE]

\* SELECT ... WHERE LOWER(name) = LOWER(?), in rowid order
SelectByName(tbl, pokemon_name) ==
    LET Matches(r) == SqlLower(r.name) = SqlLower(pokemon_name)
    IN SelectSeq(tbl, Matches)

\* get_pokemon_data: fetchone() of the SELECT, random_sets decoded
GetPokemonData(tbl, pokemon_name) ==
    LET result == SelectByName(tbl, pokemon_name)
    IN IF result = <<>>
       THEN NotFound
       ELSE [found |-> TRUE,
             id |-> result[1].id,
             name |-> result[1].name,
             sprite_url |-> result[1].sprite_url,
             random_sets |-> JsonLoads(result[1].random_sets)]

\* UPDATE pokemon SET random_sets = ? WHERE id = ?
UpdateRandomSets(tbl, id, text) ==
    [i \in DOMAIN tbl |->
        IF tbl[i].id = id THEN [tbl[i] EXCEPT !.random_sets = text] ELSE tbl[i]]

\* add_pokemon_set after its read: append to the list read, write it back
AddWrite(tbl, pokemon_data, new_set) ==
    UpdateRandomSets(tbl, pokemon_data.id,
                     JsonDumps(Append(pokemon_data.random_sets, Vars(new_set))))

\* an append that creates the row when the name matches none
AddPokemonSet_upsert(tbl, pokemon_name, new_set) ==
    LET pokemon_data == GetPokemonData(tbl, pokemon_name)
    IN IF ~pokemon_data.found
       THEN [outcome |-> "ok",
             table |-> Append(tbl, [id |-> Len(tbl) + 1, name |-> pokemon_name,
                                    sprite_url |-> <<>>,
                                    random_sets |-> JsonDumps(<<Vars(new_set)>>)])]
       ELSE [outcome |-> "ok", table |-> AddWrite(tbl, pokemon_data, new_set)]

\* add_pokemon_set: read the row, append, write the whole list back
AddPokemonSet(tbl, pokemon_name, new_set) ==
    LET pokemon_data == GetPokemonData(tbl, pokemon_name)
    IN IF ~pokemon_data.found
       THEN [outcome |-> "not_found", table |-> tbl]
       ELSE [outcome |-> "ok", table |-> AddWrite(tbl, pokemon_data, new_set)]

\* the lower bound of the index check left out
ValidSetIndex_nolower(set_index, random_sets) == set_index < Len(random_sets)

\* not (set_index < 0 or set_index >= len(random_sets))
ValidSetIndex(set_index, random_sets) ==
    ~(set_index < 0 \/ set_index >= Len(random_sets))

\* del of the element after the one asked for
Del_offbyone(random_sets, set_index) ==
    LET k == IF set_index + 2 <= Len(random_sets) THEN set_index + 2 ELSE 1
    IN SubSeq(random_sets, 1, k - 1) \o SubSeq(random_sets, k + 1, Len(random_sets))

\* del random_sets[set_index]: a negative index counts from the end
Del(random_sets, set_index) ==
    LET k == IF set_index < 0 THEN set_index + Len(random_sets) + 1 ELSE set_index + 1
    IN SubSeq(random_sets, 1, k - 1) \o SubSeq(random_sets, k + 1, Len(random_sets))

\* delete_pokemon_set
DeletePokemonSet(tbl, pokemon_name, set_index) ==
    LET pokemon_data == GetPokemonData(tbl, pokemon_name)
    IN IF ~pokemon_data.found
       THEN [outcome |-> "not_found", table |-> tbl]
       ELSE IF ~ValidSetIndex(set_index, pokemon_data.random_sets)
       THEN [outcome |-> "invalid_index", table |-> tbl]
       ELSE [outcome |-> "ok",
             table |-> UpdateRandomSets(tbl, pokemon_data.id,
                          JsonDumps(Del(pokemon_data.random_sets, set_index)))]

\* the DROP TABLE left out: CREATE TABLE IF NOT EXISTS keeps the rows
ResetDatabase_nodrop(tbl) == tbl

\* reset_database: DROP TABLE IF EXISTS, then create_database_schema
ResetDatabase(tbl) == <<>>

\* a plain INSERT into a table without constraints
InsertOrIgnore_noconstraint(tbl, row) == Append(tbl, row)

\* INSERT OR REPLACE: the conflicting rows are deleted first
InsertOrIgnore_replace(tbl, row) ==
    LET Keeps(r) == r.id # row.id /\ r.name # row.name
        kept == SelectSeq(tbl, Keeps)
        k == Cardinality({i \in DOMAIN kept : kept[i].id < row.id})
    IN SubSeq(kept, 1, k) \o <<row>> \o SubSeq(kept, k + 1, Len(kept))

\* INSERT OR IGNORE under id INTEGER PRIMARY KEY and name TEXT UNIQUE
\* (binary collation: names are compared case-sensitively)
InsertOrIgnore(tbl, row) ==
    IF \E i \in DOMAIN tbl : tbl[i].id = row.id \/ tbl[i].name = row.name
    THEN tbl
    ELSE LET k == Cardinality({i \in DOMAIN tbl : tbl[i].id < row.id})
         IN SubSeq(tbl, 1, k) \o <<row>> \o SubSeq(tbl, k + 1, Len(tbl))

\* the row the loader builds from one record
RowOf(rec, base_path) ==
    [id |-> rec.id,
     name |-> rec.name,
     sprite_url |-> AbsolutePath(base_path, rec.image_path),
     random_sets |-> EmptyJsonList]

\* os.path.exists(absolute_path)
SpriteExists(rec, fs, base_path) == AbsolutePath(base_path, rec.image_path) \in fs

\* the os.path.exists test and its `continue` left out
LoadRecord_noskip(tbl, rec, fs, base_path) == InsertOrIgnore(tbl, RowOf(rec, base_path))

\* one iteration of the loader's loop
LoadRecord(tbl, rec, fs, base_path) ==
    IF ~SpriteExists(rec, fs, base_path)
    THEN tbl
    ELSE InsertOrIgnore(tbl, RowOf(rec, base_path))

\* load_pokemon_data_from_json: the loop over pokemon_data.items(), one commit
RECURSIVE LoadPokemonData(_, _, _, _)
LoadPokemonData(tbl, dex, fs, base_path) ==
    IF dex = <<>>
    THEN tbl
    ELSE LoadPokemonData(LoadRecord(tbl, Head(dex), fs, base_path), Tail(dex), fs, base_path)

\* ---------------------------------------------- the set command, commands.py
CmdNames == {<<"A">>, <<"E_ACUTE">>}

\* _format_pokemon_name: name.lower().replace("-", " ")
FormatPokemonName(name) == Replace(PyLower(name), "-", " ")

\* only the number of moves is checked
ValidateMovesAndItem_lenonly(moves, item) == Len(moves) = 4

\* the moves are tested without move.strip()
ValidateMovesAndItem_nostrip(moves, item) ==
    IF Len(moves) # 4 THEN FALSE
    ELSE IF item = <<>> THEN FALSE
    ELSE \A i \in DOMAIN moves : moves[i] # <<>>

\* _validate_moves_and_item
ValidateMovesAndItem(moves, item) ==
    IF Len(moves) # 4 THEN FALSE
    ELSE IF item = <<>> THEN FALSE
    ELSE \A i \in DOMAIN moves : Strip(moves[i]) # <<>>

\* create_pokemon_set: the handler of the set command, up to its reply
CreatePokemonSet(tbl, pokemon_arg, args) ==
    IF Len(args) # 5
    THEN [outcome |-> "provide_args", table |-> tbl]
    ELSE LET item == Replace(args[1], "-", " ")
             moves == [i \in 1..(Len(args) - 1) |-> Replace(args[i + 1], "-", " ")]
         IN IF ~ValidateMovesAndItem(moves, item)
            THEN [outcome |-> "invalid_format", table |-> tbl]
            ELSE AddPokemonSet(tbl, FormatPokemonName(pokemon_arg),
                               [item |-> item, moves |-> moves])

\* ------------------------------------------- replies of the command handlers
\* what ctx.send is given: the kind of message, the ValueError text it
\* quotes, the name it shows, the embed's numbered fields and the set id
Reply(kind, message, name) ==
    [kind |-> kind, message |-> message, name |-> name,
     fields |-> <<>>, set_id |-> 0]

NoReply == Reply("none", "none", <<>>)

\* f"❌ Error: {ve}": the text of the ValueError that the store or the
\* handler raised; the not-found and the index text quote the name given
\* to the store
ErrorReply(message, name) == Reply("error", message, name)

\* the reply of each handler's `except Exception` branch
GenericReply(command) ==
    CASE command = "set" -> Reply("set_failed", "none", <<>>)
      [] command = "get" -> Reply("get_failed", "none", <<>>)
      [] command = "delete" -> Reply("delete_failed", "none", <<>>)
      [] command = "clean" -> Reply("clean_failed", "none", <<>>)

\* "❌ Invalid admin password."
InvalidPasswordReply == Reply("invalid_password", "none", <<>>)

\* the reply create_pokemon_set sends for each way the handler ends
CreatePokemonSetReply(tbl, pokemon_arg, args) ==
    LET r == CreatePokemonSet(tbl, pokemon_arg, args)
        pokemon_name == FormatPokemonName(pokemon_arg)
    IN CASE r.outcome = "provide_args" -> ErrorReply("provide_args", <<>>)
         [] r.outcome = "invalid_format" -> ErrorReply("invalid_format", <<>>)
         [] r.outcome = "not_found" -> ErrorReply("not_found", pokemon_name)
         [] r.outcome = "ok" ->
              [Reply("added", "none", PyTitle(pokemon_name)) EXCEPT
                  !.fields = <<[name |-> 0,
                                item |-> Replace(args[1], "-", " "),
                                moves |-> [i \in 1..4 |-> Replace(args[i + 1], "-", " ")]]>>]

\* retrieve_pokemon_sets: the handler of the get command. The ValueError of
\* get_pokemon_data is caught by `except Exception` (the handler has no
\* `except ValueError`); the embed numbers its fields with enumerate(..., 1)
RetrievePokemonSets(tbl, fs, pokemon_arg) ==
    LET pokemon_name == FormatPokemonName(pokemon_arg)
        pokemon_data == GetPokemonData(tbl, pokemon_name)
    IN IF ~pokemon_data.found
       THEN GenericReply("get")
       ELSE IF pokemon_data.random_sets = <<>>
       THEN Reply("no_sets", "none", PyTitle(pokemon_name))
       ELSE IF pokemon_data.sprite_url \notin fs
       THEN Reply("no_data", "none", PyTitle(pokemon_name))
       ELSE [Reply("embed", "none", PyTitle(pokemon_name)) EXCEPT
                !.fields = [i \in DOMAIN pokemon_data.random_sets |->
                              [name |-> i,
                               item |-> pokemon_data.random_sets[i].item,
                               moves |-> pokemon_data.random_sets[i].moves]]]

\* str.encode(): UTF-8, one byte for an ASCII character, two for an accented
\* letter
RECURSIVE Encode(_)
Encode(s) ==
    IF s = <<>> THEN <<>>
    ELSE (CASE Head(s) = "e_acute" -> <<"0xC3", "0xA9">>
            [] Head(s) = "E_ACUTE" -> <<"0xC3", "0x89">>
            [] OTHER -> <<Head(s)>>) \o Encode(Tail(s))

\* bcrypt.gensalt(): the salts a run may draw
Salts == {"salt1", "salt2"}

\* bcrypt.hashpw(password, salt): the salt, kept readable in the hash, and a
\* digest that differs whenever the salted passwords differ
Hashpw(password, salt) == [salt |-> salt, digest |-> <<salt>> \o password]

\* bcrypt.checkpw(password, hashed_password): hash again under the salt of
\* the stored hash and compare
Checkpw(password, hashed_password) ==
    Hashpw(password, hashed_password.salt) = hashed_password

\* every password is accepted
ValidateAdminPassword_always(hashed_password, provided_password) == TRUE

\* _validate_admin_password
ValidateAdminPassword(hashed_password, provided_password) ==
    Checkpw(Encode(provided_password), hashed_password)

\* a delete handler that takes set_id as the number get displays
RemovePokemonSet_onebased(tbl, hashed_password, pokemon_arg, set_id, password) ==
    IF ~ValidateAdminPassword(hashed_password, password)
    THEN [reply |-> InvalidPasswordReply, table |-> tbl, calls |-> <<>>]
    ELSE LET pokemon_name == FormatPokemonName(pokemon_arg)
             r == DeletePokemonSet(tbl, pokemon_name, set_id - 1)
         IN [reply |->
                CASE r.outcome = "ok" ->
                       [Reply("deleted", "none", PyTitle(pokemon_name)) EXCEPT
                           !.set_id = set_id]
                  [] r.outcome = "not_found" -> ErrorReply("not_found", pokemon_name)
                  [] r.outcome = "invalid_index" ->
                       ErrorReply("invalid_index", pokemon_name),
             table |-> r.table,
             calls |-> <<"delete_pokemon_set">>]

\* remove_pokemon_set: the handler of the delete command; `calls` are the
\* store operations it invoked
RemovePokemonSet(tbl, hashed_password, pokemon_arg, set_id, password) ==
    IF ~ValidateAdminPassword(hashed_password, password)
    THEN [reply |-> InvalidPasswordReply, table |-> tbl, calls |-> <<>>]
    ELSE LET pokemon_name == FormatPokemonName(pokemon_arg)
             r == DeletePokemonSet(tbl, pokemon_name, set_id)
         IN [reply |->
                CASE r.outcome = "ok" ->
                       [Reply("deleted", "none", PyTitle(pokemon_name)) EXCEPT
                           !.set_id = set_id]
                  [] r.outcome = "not_found" -> ErrorReply("not_found", pokemon_name)
                  [] r.outcome = "invalid_index" ->
                       ErrorReply("invalid_index", pokemon_name),
             table |-> r.table,
             calls |-> <<"delete_pokemon_set">>]

\* PokemonCommands.reset_database: the handler of the clean command
ResetDatabaseCommand(tbl, hashed_password, password) ==
    IF ~ValidateAdminPassword(hashed_password, password)
    THEN [reply |-> InvalidPasswordReply, table |-> tbl, calls |-> <<>>]
    ELSE [reply |-> Reply("reset_done", "none", <<>>),
          table |-> ResetDatabase(tbl),
          calls |-> <<"reset_database">>]

\* ----------------------------------------------------------------- history
NoCall ==
    [op |-> "none", name |-> <<>>, args |-> <<>>,
     new_set |-> [item |-> <<>>, moves |-> <<>>], set_index |-> 0,
     outcome |-> "none", result |-> NotFound, before |-> <<>>, files |-> {},
     reload |-> FALSE, reset_since |-> FALSE, skipped |-> {},
     reply |-> NoReply, password |-> <<>>, calls |-> <<>>]

\* the record of a call that has just returned
Returned(op, outcome) ==
    [NoCall EXCEPT !.op = op, !.outcome = outcome, !.before = pokemon,
                   !.files = files, !.reset_since = last.reset_since,
                   !.skipped = last.skipped]

\* no list of the table is longer than the model's cap
WithinCap(tbl) == \A i \in DOMAIN tbl : Len(tbl[i].random_sets) <= MaxSets

\* ------------------------------------------------------------------ actions
\* DatabaseManager.load_pokemon_data_from_json(base_path)
load_pokemon_data_from_json ==
    /\ pokemon' = LoadPokemonData(pokemon, national_dex, files, BasePath)
    /\ last' = [Returned("load", "ok") EXCEPT
                  !.reload = (last.op = "load" /\ last.files = files),
                  !.reset_since = FALSE,
                  !.skipped = last.skipped \cup
                      {national_dex[i] : i \in
                          {j \in DOMAIN national_dex :
                              ~SpriteExists(national_dex[j], files, BasePath)}}]
    /\ UNCHANGED <<files, national_dex, tasks, running, connection, boot>>

\* DatabaseManager.get_pokemon_data(pokemon_name)
get_pokemon_data(pokemon_name) ==
    LET data == GetPokemonData(pokemon, pokemon_name)
    IN /\ last' = [Returned("get", IF data.found THEN "ok" ELSE "not_found") EXCEPT
                     !.name = pokemon_name, !.result = data]
       /\ UNCHANGED <<pokemon, files, national_dex, tasks, running, connection, boot>>

\* DatabaseManager.add_pokemon_set(pokemon_name, new_set)
add_pokemon_set(pokemon_name, new_set) ==
    LET r == AddPokemonSet(pokemon, pokemon_name, new_set)
    IN /\ WithinCap(r.table)
       /\ pokemon' = r.table
       /\ last' = [Returned("add", r.outcome) EXCEPT
                     !.name = pokemon_name, !.new_set = new_set]
       /\ UNCHANGED <<files, national_dex, tasks, running, connection, boot>>

\* PokemonCommands.create_pokemon_set(ctx, pokemon, *args)
create_pokemon_set(pokemon_arg, args) ==
    LET r == CreatePokemonSet(pokemon, pokemon_arg, args)
    IN /\ WithinCap(r.table)
       /\ pokemon' = r.table
       /\ last' = [Returned("set", r.outcome) EXCEPT
                     !.name = pokemon_arg, !.args = args,
                     !.reply = CreatePokemonSetReply(pokemon, pokemon_arg, args),
                     !.calls = IF r.outcome \in {"provide_args", "invalid_format"}
                               THEN <<>> ELSE <<"add_pokemon_set">>]
       /\ UNCHANGED <<files, national_dex, tasks, running, connection, boot>>

\* DatabaseManager.delete_pokemon_set(pokemon_name, set_index)
delete_pokemon_set(pokemon_name, set_index) ==
    LET r == DeletePokemonSet(pokemon, pokemon_name, set_index)
    IN /\ pokemon' = r.table
       /\ last' = [Returned("delete", r.outcome) EXCEPT
                     !.name = pokemon_name, !.set_index = set_index]
       /\ UNCHANGED <<files, national_dex, tasks, running, connection, boot>>

\* DatabaseManager.reset_database()
reset_database ==
    /\ pokemon' = ResetDatabase(pokemon)
    /\ last' = [Returned("reset", "ok") EXCEPT !.reset_since = TRUE]
    /\ UNCHANGED <<files, national_dex, tasks, running, connection, boot>>

\* PokemonCommands.retrieve_pokemon_sets(ctx, pokemon)
retrieve_pokemon_sets(pokemon_arg) ==
    LET reply == RetrievePokemonSets(pokemon, files, pokemon_arg)
    IN /\ last' = [Returned("cmd_get", reply.kind) EXCEPT
                     !.name = pokemon_arg, !.reply = reply,
                     !.calls = <<"get_pokemon_data">>]
       /\ UNCHANGED <<pokemon, files, national_dex, tasks, running, connection, boot>>

\* PokemonCommands.remove_pokemon_set(ctx, pokemon, set_id, password)
remove_pokemon_set(pokemon_arg, set_id, password) ==
    LET r == RemovePokemonSet(pokemon, boot.hashed_password, pokemon_arg, set_id, password)
    IN /\ pokemon' = r.table
       /\ last' = [Returned("cmd_delete", r.reply.kind) EXCEPT
                     !.name = pokemon_arg, !.set_index = set_id,
                     !.password = password, !.reply = r.reply, !.calls = r.calls]
       /\ UNCHANGED <<files, national_dex, tasks, running, connection, boot>>

\* PokemonCommands.reset_database(ctx, password)
cmd_reset_database(password) ==
    LET r == ResetDatabaseCommand(pokemon, boot.hashed_password, password)
    IN /\ pokemon' = r.table
       /\ last' = [Returned("cmd_clean", r.reply.kind) EXCEPT
                     !.password = password, !.reply = r.reply, !.calls = r.calls,
                     !.reset_since = (r.calls # <<>>)]
       /\ UNCHANGED <<files, national_dex, tasks, running, connection, boot>>

\* a sprite file is put in place between two runs of the loader
CreateFile(f) ==
    /\ f \notin files
    /\ files' = files \cup {f}
    /\ UNCHANGED <<pokemon, national_dex, last, tasks, running, connection, boot>>

NoTasks == [t \in 1..MaxTasks |-> [pc |-> "none"]]

\* ---------------------------------------- the store under sequential calls
Init ==
    /\ national_dex \in StoreDatasets
    /\ files = AllFiles
    /\ pokemon = <<>>
    /\ last = NoCall
    /\ tasks = NoTasks
    /\ running = 0
    /\ connection = Closed
    /\ boot = NoBoot

Next ==
    \/ load_pokemon_data_from_json
    \/ \E q \in QueryNames : get_pokemon_data(q)
    \/ \E q \in QueryNames, s \in NewSets : add_pokemon_set(q, s)
    \/ \E p \in CmdNames, a \in ArgLists : create_pokemon_set(p, a)
    \/ \E q \in QueryNames, i \in Indices : delete_pokemon_set(q, i)
    \/ reset_database

Spec == Init /\ [][Next]_vars

\* ------------------------------------------ the loader, any dataset and disk
InitLoad ==
    /\ national_dex \in Datasets
    /\ files \in SUBSET AllFiles
    /\ pokemon = <<>>
    /\ last = NoCall
    /\ tasks = NoTasks
    /\ running = 0
    /\ connection = Closed
    /\ boot = NoBoot

NextLoad ==
    \/ load_pokemon_data_from_json
    \/ \E f \in AllFiles : CreateFile(f)
    \/ \E q \in DexNames : add_pokemon_set(q, Set1)

SpecLoad == InitLoad /\ [][NextLoad]_vars

\* -------------------------------- concurrent appends on the one event loop
\* the event loop is handed to another task between the read and the write
GetPokemonDataSuspends_yield == TRUE

\* `await self.get_pokemon_data(...)`: the coroutine holds no await of its
\* own and sqlite3 calls block, so awaiting it never yields to the event loop
GetPokemonDataSuspends == FALSE

\* the item of the t-th concurrent call: t letters, so all items differ
ItemOf(t) == [i \in 1..t |-> "x"]

TaskSet(t) == [item |-> ItemOf(t), moves |-> <<tX, tX, tX, tX>>]

\* add_pokemon_set up to the return of get_pokemon_data (db.py:177)
add_read(t) ==
    LET pokemon_data == GetPokemonData(pokemon, tasks[t].name)
    IN /\ tasks[t].pc = "ready"
       /\ running = 0
       /\ IF ~pokemon_data.found
          THEN /\ tasks' = [tasks EXCEPT ![t].pc = "done", ![t].outcome = "not_found"]
               /\ running' = 0
          ELSE /\ tasks' = [tasks EXCEPT ![t].pc = "update", ![t].data = pokemon_data]
               /\ running' = (IF GetPokemonDataSuspends THEN 0 ELSE t)
       /\ UNCHANGED <<pokemon, files, national_dex, last, connection, boot>>

\* add_pokemon_set from the append to the commit and return (db.py:180-201)
add_update(t) ==
    /\ tasks[t].pc = "update"
    /\ running \in {0, t}
    /\ pokemon' = AddWrite(pokemon, tasks[t].data, tasks[t].new_set)
    /\ tasks' = [tasks EXCEPT ![t].pc = "done", ![t].outcome = "ok"]
    /\ running' = 0
    /\ UNCHANGED <<files, national_dex, last, connection, boot>>

\* MaxTasks calls of add_pokemon_set for one name, all pending at once, on a
\* loaded store whose lists are empty or hold one set
InitConc ==
    /\ national_dex \in StoreDatasets
    /\ files = AllFiles
    /\ \E held \in {<<>>, <<Set1>>} :
          pokemon = [i \in DOMAIN national_dex |->
                        [LoadPokemonData(<<>>, national_dex, files, BasePath)[i]
                            EXCEPT !.random_sets = JsonDumps(held)]]
    /\ last = [NoCall EXCEPT !.before = pokemon]
    /\ \E target \in QueryNames :
          tasks = [t \in 1..MaxTasks |->
                      [pc |-> "ready", name |-> target, new_set |-> TaskSet(t),
                       data |-> NotFound, outcome |-> "none"]]
    /\ running = 0
    /\ connection = Closed
    /\ boot = NoBoot

NextConc ==
    \/ \E t \in 1..MaxTasks : add_read(t)
    \/ \E t \in 1..MaxTasks : add_update(t)

SpecConc == InitConc /\ [][NextConc]_vars

\* ------------------------------------------------- the four store commands
\* names of the dataset: plain, with an upper-case accented letter, with '-'
CmdDexNames == {<<"a">>, <<"E_ACUTE">>, <<"a", "-", "b">>}

\* the first argument of a command
CmdInputs == {<<"A">>, <<"E_ACUTE">>, <<"A", "-", "B">>}

\* config.ADMIN_PASSWORD as the cog's constructor reads it
AdminPasswords == {<<"p", "e_acute">>}

\* the password argument of delete and clean
Passwords == {<<"p", "e_acute">>, <<"p">>, <<"P", "E_ACUTE">>, <<>>}

\* datasets of distinct names whose records are loaded as they stand
CmdDatasets ==
    {d \in SeqsUpTo([name : CmdDexNames, id : Ids, image_path : {<<"s", "/", "2">>}],
                    MaxRecords) :
        /\ \A i \in DOMAIN d : d[i].id = i
        /\ \A i, j \in DOMAIN d : i # j => d[i].name # d[j].name}

\* a PokemonCommands object whose constructor has returned, its store being
\* the file the loader fills
Cog(admin_password, salt) ==
    [pc |-> "serving", admin_password |-> admin_password,
     hashed_password |-> Hashpw(Encode(admin_password), salt)]

InitCmd ==
    /\ national_dex \in CmdDatasets
    /\ files = AllFiles
    /\ pokemon = <<>>
    /\ last = NoCall
    /\ tasks = NoTasks
    /\ running = 0
    /\ connection = Closed
    /\ \E a \in AdminPasswords, salt \in Salts : boot = Cog(a, salt)

NextCmd ==
    \/ load_pokemon_data_from_json
    \/ \E p \in CmdInputs, a \in ArgLists : create_pokemon_set(p, a)
    \/ \E p \in CmdInputs : retrieve_pokemon_sets(p)
    \/ \E p \in CmdInputs, i \in Indices, w \in Passwords :
          remove_pokemon_set(p, i, w)
    \/ \E w \in Passwords : cmd_reset_database(w)

SpecCmd == InitCmd /\ [][NextCmd]_vars

\* ------------------- concurrent appends, deletes and resets on one manager
\* the event loop is handed to another task while the SELECT is under way
ExecuteSuspends_yield == TRUE

\* self._cursor.execute(...) is a blocking sqlite3 call, not awaited: no
\* other task runs between _establish_connection and _close_connection
ExecuteSuspends == FALSE

\* the names the concurrent calls are made for
MixNames == {<<"a">>, <<"e_acute">>}

\* the calls a task may make: an append, a delete of index 0 or 1, a reset
MixCalls ==
    [op : {"add"}, name : MixNames, set_index : {0}]
        \cup [op : {"delete"}, name : MixNames, set_index : {0, 1}]
        \cup {[op |-> "reset", name |-> <<>>, set_index |-> 0]}

MixTask(t, call) ==
    [op |-> call.op, pc |-> "ready", name |-> call.name, new_set |-> TaskSet(t),
     set_index |-> call.set_index, data |-> NotFound, outcome |-> "none"]

\* get_pokemon_data up to the SELECT: _establish_connection replaces the
\* manager's connection and cursor, the cursor then holds the result rows
get_pokemon_data_execute(t) ==
    /\ tasks[t].pc = "ready"
    /\ tasks[t].op \in {"add", "delete"}
    /\ running = 0
    /\ connection' = [open |-> TRUE, owner |-> t,
                      result |-> SelectByName(pokemon, tasks[t].name)]
    /\ tasks' = [tasks EXCEPT ![t].pc = "fetch"]
    /\ running' = (IF ExecuteSuspends THEN 0 ELSE t)
    /\ UNCHANGED <<pokemon, files, national_dex, last, boot>>

\* get_pokemon_data from fetchone() on the manager's cursor to the close in
\* `finally`, then the caller up to its own _establish_connection: a cursor
\* that is None raises AttributeError, no row raises ValueError, and
\* delete_pokemon_set checks the index
get_pokemon_data_fetch(t) ==
    /\ tasks[t].pc = "fetch"
    /\ running \in {0, t}
    /\ connection' = Closed
    /\ IF ~connection.open
       THEN /\ tasks' = [tasks EXCEPT ![t].pc = "done", ![t].outcome = "error"]
            /\ running' = 0
       ELSE IF connection.result = <<>>
       THEN /\ tasks' = [tasks EXCEPT ![t].pc = "done", ![t].outcome = "not_found"]
            /\ running' = 0
       ELSE LET row == connection.result[1]
                pokemon_data == [found |-> TRUE, id |-> row.id, name |-> row.name,
                                 sprite_url |-> row.sprite_url,
                                 random_sets |-> JsonLoads(row.random_sets)]
            IN IF /\ tasks[t].op = "delete"
                  /\ ~ValidSetIndex(tasks[t].set_index, pokemon_data.random_sets)
               THEN /\ tasks' = [tasks EXCEPT ![t].pc = "done",
                                              ![t].outcome = "invalid_index"]
                    /\ running' = 0
               ELSE /\ tasks' = [tasks EXCEPT ![t].pc = "update",
                                              ![t].data = pokemon_data]
                    /\ running' = (IF GetPokemonDataSuspends THEN 0 ELSE t)
    /\ UNCHANGED <<pokemon, files, national_dex, last, boot>>

\* add_pokemon_set and delete_pokemon_set from _establish_connection to the
\* commit and the close in `finally`
update_random_sets(t) ==
    /\ tasks[t].pc = "update"
    /\ running \in {0, t}
    /\ pokemon' = (IF tasks[t].op = "add"
                   THEN AddWrite(pokemon, tasks[t].data, tasks[t].new_set)
                   ELSE UpdateRandomSets(pokemon, tasks[t].data.id,
                            JsonDumps(Del(tasks[t].data.random_sets,
                                          tasks[t].set_index))))
    /\ connection' = Closed
    /\ tasks' = [tasks EXCEPT ![t].pc = "done", ![t].outcome = "ok"]
    /\ running' = 0
    /\ UNCHANGED <<files, national_dex, last, boot>>

\* reset_database as a task: no await between its first and last statement
reset_database_task(t) ==
    /\ tasks[t].pc = "ready"
    /\ tasks[t].op = "reset"
    /\ running = 0
    /\ pokemon' = ResetDatabase(pokemon)
    /\ connection' = Closed
    /\ tasks' = [tasks EXCEPT ![t].pc = "done", ![t].outcome = "ok"]
    /\ running' = 0
    /\ UNCHANGED <<files, national_dex, last, boot>>

\* MaxTasks calls pending at once on a loaded store whose lists are empty or
\* hold one or two sets
InitMix ==
    /\ national_dex \in StoreDatasets
    /\ files = AllFiles
    /\ \E held \in {<<>>, <<Set1>>, <<Set1, Set2>>} :
          pokemon = [i \in DOMAIN national_dex |->
                        [LoadPokemonData(<<>>, national_dex, files, BasePath)[i]
                            EXCEPT !.random_sets = JsonDumps(held)]]
    /\ last = [NoCall EXCEPT !.before = pokemon]
    /\ \E calls \in [1..MaxTasks -> MixCalls] :
          tasks = [t \in 1..MaxTasks |-> MixTask(t, calls[t])]
    /\ running = 0
    /\ connection = Closed
    /\ boot = NoBoot

NextMix ==
    \/ \E t \in 1..MaxTasks : get_pokemon_data_execute(t)
    \/ \E t \in 1..MaxTasks : get_pokemon_data_fetch(t)
    \/ \E t \in 1..MaxTasks : update_random_sets(t)
    \/ \E t \in 1..MaxTasks : reset_database_task(t)

SpecMix == InitMix /\ [][NextMix]_vars

\* --------------------------------------- startup: Config, bot, setup_hook
\* the class attributes of Config
ConfigAttributes ==
    {"DEBUG_MODE", "DISCORD_TOKEN", "DATABASE_FILE", "DATABASE_URL",
     "COMMAND_PREFIX", "LOGGER_NAME", "LOGGER_FILE_NAME"}

\* the default of DatabaseManager's db_file parameter and of DATABASE_FILE
DefaultDbFile == "pokemon_sets_data.db"

\* the environment's DATABASE_FILE
EnvDatabaseFiles == {"unset", "pokemon_sets_data.db", "other.db"}

\* os.getenv("DATABASE_FILE", "pokemon_sets_data.db")
ConfigDatabaseFile(env) == IF env = "unset" THEN DefaultDbFile ELSE env

\* bot/data/national_dex.json: absent, not JSON, or a JSON object of records
DexFiles == {"missing", "unparseable", "json"}

\* the commands of the PokemonCommands cog
CogCommands == {".help", ".set", ".get", ".delete", ".clean"}

\* the process before ProfessorOakBot is constructed
Process(env, dex_file) ==
    [pc |-> "main", env_database_file |-> env, dex_file |-> dex_file,
     bot_db_file |-> "none", cog_db_file |-> "none", db_initialized |-> FALSE,
     raised |-> "none", commands |-> {}, closed |-> FALSE]

\* the loader returns normally whatever the state of the file
LoadRaises_never(dex_file) == FALSE

\* load_pokemon_data_from_json raises FileNotFoundError when the file does
\* not exist, json.load raises on text that is not JSON; both are re-raised
LoadRaises(dex_file) == dex_file # "json"

\* ProfessorOakBot.__init__: self.db = DatabaseManager(config.DATABASE_FILE)
ProfessorOakBot_init ==
    /\ boot.pc = "main"
    /\ boot' = [boot EXCEPT !.pc = "setup_hook",
                            !.bot_db_file = ConfigDatabaseFile(boot.env_database_file)]
    /\ UNCHANGED <<pokemon, files, national_dex, last, tasks, running, connection>>

\* setup_hook's call of _initialize_database: the schema, then the loader;
\* any exception becomes a RuntimeError, which setup_hook catches
initialize_database ==
    /\ boot.pc = "setup_hook"
    /\ IF LoadRaises(boot.dex_file)
       THEN /\ boot' = [boot EXCEPT !.pc = "setup_failed", !.raised = "RuntimeError"]
            /\ UNCHANGED pokemon
       ELSE /\ boot' = [boot EXCEPT !.pc = "load_extensions", !.db_initialized = TRUE]
            /\ pokemon' = LoadPokemonData(pokemon, national_dex, files, BasePath)
    /\ UNCHANGED <<files, national_dex, last, tasks, running, connection>>

\* load_extension("bot.cogs.commands") -> setup -> PokemonCommands.__init__
\* up to self.db = DatabaseManager()
PokemonCommands_init ==
    /\ boot.pc = "load_extensions"
    /\ boot' = [boot EXCEPT !.pc = "hash_admin_password",
                            !.cog_db_file = DefaultDbFile]
    /\ UNCHANGED <<pokemon, files, national_dex, last, tasks, running, connection>>

\* self.hashed_password = self._hash_admin_password(), then bot.add_cog:
\* reading an attribute Config does not have raises AttributeError, which
\* _hash_admin_password, setup and _load_bot_extensions pass on to setup_hook
hash_admin_password ==
    /\ boot.pc = "hash_admin_password"
    /\ IF "ADMIN_PASSWORD" \in ConfigAttributes
       THEN boot' = [boot EXCEPT !.pc = "ready", !.commands = CogCommands]
       ELSE boot' = [boot EXCEPT !.pc = "setup_failed", !.raised = "AttributeError"]
    /\ UNCHANGED <<pokemon, files, national_dex, last, tasks, running, connection>>

\* setup_hook's except branch: await self.close()
close ==
    /\ boot.pc = "setup_failed"
    /\ boot' = [boot EXCEPT !.pc = "closed", !.closed = TRUE]
    /\ UNCHANGED <<pokemon, files, national_dex, last, tasks, running, connection>>

InitStartup ==
    /\ files \in SUBSET AllFiles
    /\ pokemon = <<>>
    /\ last = NoCall
    /\ tasks = NoTasks
    /\ running = 0
    /\ connection = Closed
    /\ \E env \in EnvDatabaseFiles, dex_file \in DexFiles :
          /\ boot = Process(env, dex_file)
          /\ IF dex_file = "json"
             THEN national_dex \in StoreDatasets
             ELSE national_dex = <<>>

NextStartup ==
    \/ ProfessorOakBot_init
    \/ initialize_database
    \/ PokemonCommands_init
    \/ hash_admin_password
    \/ close

\* setup_hook is awaited once by the client's login and runs to its end
SpecStartup == InitStartup /\ [][NextStartup]_vars /\ WF_vars(NextStartup)

\* ------------------------------------------------------------------ claims
\* the same letters in a possibly different letter case
FoldChar(c) ==
    CASE c = "A" -> "a"
      [] c = "B" -> "b"
      [] c = "E_ACUTE" -> "e_acute"
      [] OTHER -> c

SameLetters(s, t) ==
    /\ Len(s) = Len(t)
    /\ \A i \in DOMAIN s : FoldChar(s[i]) = FoldChar(t[i])

\* the persisted list of the row with this id
StoredSets(tbl, id) ==
    LET HasId(r) == r.id = id
    IN JsonLoads(SelectSeq(tbl, HasId)[1].random_sets)

\* the entity the last call's name denoted before the call
LastEntity == GetPokemonData(last.before, last.name)

\* C1: N concurrent AppendMoveset calls on one entity, each with its own
\* item: when all have returned the list has grown by exactly N and holds
\* every new moveset after the old ones (no lost update).
C1_ConcurrentAppendsAllKept ==
    LET old == GetPokemonData(last.before, tasks[1].name)
        new == GetPokemonData(pokemon, tasks[1].name)
    IN ((\A t \in 1..MaxTasks : tasks[t].pc = "done") /\ old.found) =>
          /\ \A t \in 1..MaxTasks : tasks[t].outcome = "ok"
          /\ new.found
          /\ Len(new.random_sets) = Len(old.random_sets) + MaxTasks
          /\ SubSeq(new.random_sets, 1, Len(old.random_sets)) = old.random_sets
          /\ \A t \in 1..MaxTasks :
                \E k \in (Len(old.random_sets) + 1)..Len(new.random_sets) :
                    new.random_sets[k] = TaskSet(t)

\* all calls have returned for an entity that already held a moveset
C1_Witness ==
    /\ \A t \in 1..MaxTasks : tasks[t].pc = "done" /\ tasks[t].outcome = "ok"
    /\ GetPokemonData(last.before, tasks[1].name).found
    /\ GetPokemonData(last.before, tasks[1].name).random_sets # <<>>

\* C2: after a successful AppendMoveset on an existing entity, Lookup with the
\* name in any letter case returns that entity, its list being the previous
\* list with exactly the new {item, moves} added at the tail.
C2_AppendThenLookupAnyCase ==
    (last.op = "add" /\ last.outcome = "ok") =>
        \A q \in QueryNames :
            SameLetters(q, last.name) =>
                LET e == GetPokemonData(pokemon, q)
                IN /\ e.found
                   /\ e.id = LastEntity.id
                   /\ e.random_sets = Append(LastEntity.random_sets, last.new_set)

\* C3: DeleteMoveset(name, i) with 0 <= i < len removes exactly the element
\* at index i: length len-1, elements before i unchanged, each element
\* formerly at j > i now at j-1.
C3_DeleteRemovesIndex ==
    (/\ last.op = "delete"
     /\ LastEntity.found
     /\ 0 <= last.set_index
     /\ last.set_index < Len(LastEntity.random_sets)) =>
        LET old == LastEntity.random_sets
            new == StoredSets(pokemon, LastEntity.id)
            i == last.set_index
        IN /\ last.outcome = "ok"
           /\ Len(new) = Len(old) - 1
           /\ \A j \in 0..(Len(old) - 1) :
                /\ j < i => new[j + 1] = old[j + 1]
                /\ j > i => new[j] = old[j + 1]

\* a delete of index 0 from a list of two different sets has succeeded
C3_Witness ==
    /\ last.op = "delete"
    /\ last.outcome = "ok"
    /\ last.set_index = 0
    /\ Len(LastEntity.random_sets) >= 2
    /\ LastEntity.random_sets[1] # LastEntity.random_sets[2]

\* C4: DeleteMoveset on an existing entity with index < 0 or index >= len
\* fails with the invalid-index error and leaves the whole store unmodified.
C4_DeleteOutOfRange ==
    (/\ last.op = "delete"
     /\ LastEntity.found
     /\ (last.set_index < 0 \/ last.set_index >= Len(LastEntity.random_sets))) =>
        /\ last.outcome = "invalid_index"
        /\ pokemon = last.before

\* index -1 was refused on an entity that has movesets
C4_Witness ==
    /\ last.op = "delete"
    /\ LastEntity.found
    /\ last.set_index = 0 - 1
    /\ LastEntity.random_sets # <<>>
    /\ last.outcome = "invalid_index"

\* the preconditions of AppendMoveset on the arguments as given
WellFormedArgs(args) ==
    /\ Len(args) = 5
    /\ args[1] # <<>>
    /\ \A k \in 2..5 : Strip(args[k]) # <<>>

\* C5: the set command with arguments violating the preconditions (not one
\* item plus 4 moves, empty item, move empty after trimming) fails with a
\* validation error (wrong count told apart from empty field) and does not
\* mutate the store, whether or not the entity exists.
C5_InvalidArgsRejected ==
    (last.op = "set" /\ ~WellFormedArgs(last.args)) =>
        /\ last.outcome = (IF Len(last.args) # 5 THEN "provide_args" ELSE "invalid_format")
        /\ pokemon = last.before

\* an empty move was refused for an entity that exists and has a moveset
C5_Witness ==
    /\ last.op = "set"
    /\ Len(last.args) = 5
    /\ last.args[5] = <<>>
    /\ last.outcome = "invalid_format"
    /\ GetPokemonData(last.before, FormatPokemonName(last.name)).found
    /\ GetPokemonData(last.before, FormatPokemonName(last.name)).random_sets # <<>>

\* C6: from a completed ResetAll until the loader runs again the store holds
\* no entity: every Lookup fails, whatever Lookup/Append/Delete calls follow.
C6_ResetLeavesNothing ==
    last.reset_since =>
        /\ pokemon = <<>>
        /\ \A q \in QueryNames \cup DexNames : ~GetPokemonData(pokemon, q).found

\* after a reset of a store that held movesets, an append to a name that
\* had been loaded was refused as not found
C6_Witness ==
    /\ last.reset_since
    /\ last.op = "add"
    /\ last.outcome = "not_found"
    /\ \E i \in DOMAIN national_dex : national_dex[i].name = last.name

\* the rows of a table, as a set
Rows(tbl) == {tbl[i] : i \in DOMAIN tbl}

\* C7: no two persisted entities share an id, and no two share a name under
\* case-insensitive comparison, whatever dataset the loader is given.
C7_UniqueIdAndName ==
    \A i, j \in DOMAIN pokemon :
        i # j => /\ pokemon[i].id # pokemon[j].id
                 /\ ~SameLetters(pokemon[i].name, pokemon[j].name)

\* C8: a second run of the loader against the same dataset and the same
\* files inserts no row, duplicates none and raises no error.
C8_LoadIdempotent ==
    (last.op = "load" /\ last.reload) =>
        /\ last.outcome = "ok"
        /\ pokemon = last.before

\* the loader has run twice in a row on a dataset that yields rows
C8_Witness ==
    /\ last.op = "load"
    /\ last.reload
    /\ pokemon # <<>>
    /\ Len(pokemon) < Len(national_dex)

\* C9: a loader run leaves every pre-existing row identical (id, name, image
\* reference, movesets); every row it adds has an id that was absent and an
\* empty movesets list.
C9_LoadKeepsRows ==
    last.op = "load" =>
        /\ Rows(last.before) \subseteq Rows(pokemon)
        /\ Len(pokemon) >= Len(last.before)
        /\ \A r \in Rows(pokemon) \ Rows(last.before) :
              /\ \A b \in Rows(last.before) : b.id # r.id
              /\ JsonLoads(r.random_sets) = <<>>

\* a load added a row next to a row that already had a moveset
C9_Witness ==
    /\ last.op = "load"
    /\ \E b \in Rows(last.before) : b.random_sets # <<>>
    /\ Len(pokemon) > Len(last.before)

\* the record's sprite was missing in the last load
MissedSprite(rec) == ~SpriteExists(rec, last.files, BasePath)

\* a row the last load added
AddedByLoad(r) == r \in Rows(pokemon) \ Rows(last.before)

\* a record with a missing sprite is not inserted, and every record with an
\* existing sprite is processed (inserted, or ignored for a stored id or name)
SkipsOnlyMissing ==
    \A i \in DOMAIN national_dex :
        LET rec == national_dex[i]
        IN /\ MissedSprite(rec) => \A r \in Rows(pokemon) : r.name # rec.name
           /\ ~MissedSprite(rec) =>
                \E r \in Rows(pokemon) : r.id = rec.id \/ r.name = rec.name

\* C10 as stated: a record with a missing asset is skipped without aborting
\* the load, and a later load inserts that record once its asset exists.
C10_SkippedInsertedLater ==
    last.op = "load" =>
        /\ SkipsOnlyMissing
        /\ \A rec \in last.skipped :
              ~MissedSprite(rec) => RowOf(rec, BasePath).id \in {r.id : r \in
                  {x \in Rows(pokemon) : x.name = rec.name}}

\* C10 amended: ... and a later load inserts that record once its asset
\* exists, unless a stored row already has its id or its name.
C10_SkippedRetriedLater ==
    last.op = "load" =>
        /\ SkipsOnlyMissing
        /\ \A i \in DOMAIN national_dex :
              LET rec == national_dex[i]
                  taken == \/ \E b \in Rows(last.before) :
                                b.id = rec.id \/ b.name = rec.name
                           \/ \E j \in 1..(i - 1) :
                                /\ ~MissedSprite(national_dex[j])
                                /\ national_dex[j].id = rec.id
              IN (rec \in last.skipped /\ ~MissedSprite(rec)) =>
                    IF taken
                    THEN ~AddedByLoad(RowOf(rec, BasePath))
                    ELSE AddedByLoad(RowOf(rec, BasePath))

\* a load inserted a record an earlier load had skipped, while it skipped
\* another record whose sprite is still missing
C10_Witness ==
    /\ last.op = "load"
    /\ \E rec \in last.skipped :
          ~MissedSprite(rec) /\ AddedByLoad(RowOf(rec, BasePath))
    /\ \E rec \in last.skipped : MissedSprite(rec)

\* the entities of a table: their ids and names, in table order
Entities(tbl) == [i \in DOMAIN tbl |-> <<tbl[i].id, tbl[i].name>>]

\* C11: no Lookup, AppendMoveset or DeleteMoveset call changes the persisted
\* entities (ids and names); AppendMoveset or DeleteMoveset with a name that
\* matches no entity fails with NotFound and leaves the table as it was.
C11_EntitiesFixed ==
    (last.op \in {"get", "add", "delete"}) =>
        /\ Entities(pokemon) = Entities(last.before)
        /\ (last.op \in {"add", "delete"} /\ ~LastEntity.found) =>
              /\ last.outcome = "not_found"
              /\ pokemon = last.before

\* an append for a name that matches none of the rows of a loaded store
\* has returned
C11_Witness ==
    /\ last.op = "add"
    /\ last.before # <<>>
    /\ ~LastEntity.found
    /\ last.outcome = "not_found"

\* the command a handler serves
CommandOf(op) ==
    CASE op = "set" -> "set"
      [] op = "cmd_get" -> "get"
      [] op = "cmd_delete" -> "delete"
      [] op = "cmd_clean" -> "clean"

\* the last command got as far as asking the store for an entity, and its
\* name matched none
LastCommandMissed ==
    /\ last.op \in {"set", "cmd_get", "cmd_delete"}
    /\ last.calls # <<>>
    /\ ~GetPokemonData(last.before, FormatPokemonName(last.name)).found

\* C12: for each of get, set and delete, a name that matches no entity is
\* answered with the NotFound rejection, which quotes the name queried of the
\* store and is not the generic failure reply of the command.
C12_NotFoundReply ==
    LastCommandMissed =>
        /\ last.reply = ErrorReply("not_found", FormatPokemonName(last.name))
        /\ last.reply # GenericReply(CommandOf(last.op))

\* C16: in every state reached through the commands, every persisted moveset
\* has a non-empty item and exactly 4 moves, each non-empty after trimming,
\* and a set command that succeeds stores item and moves in the order given,
\* with '-' replaced by a space.
C16_StoredSetsWellFormed ==
    /\ \A i \in DOMAIN pokemon :
          \A k \in DOMAIN JsonLoads(pokemon[i].random_sets) :
              LET set == JsonLoads(pokemon[i].random_sets)[k]
              IN /\ set.item # <<>>
                 /\ Len(set.moves) = 4
                 /\ \A m \in DOMAIN set.moves : Strip(set.moves[m]) # <<>>
    /\ (last.op = "set" /\ last.outcome = "ok") =>
          LET old == GetPokemonData(last.before, FormatPokemonName(last.name))
              new == StoredSets(pokemon, old.id)
          IN /\ Len(new) = Len(old.random_sets) + 1
             /\ new[Len(new)].item = Replace(last.args[1], "-", " ")
             /\ Len(new[Len(new)].moves) = 4
             /\ \A m \in 1..4 :
                   new[Len(new)].moves[m] = Replace(last.args[m + 1], "-", " ")

\* a set command whose arguments hold a '-' has stored a second moveset
\* that differs from the first
C16_Witness ==
    /\ last.op = "set"
    /\ last.outcome = "ok"
    /\ \E k \in 1..5 : \E c \in DOMAIN last.args[k] : last.args[k][c] = "-"
    /\ \E i \in DOMAIN pokemon :
          /\ Len(pokemon[i].random_sets) = 2
          /\ pokemon[i].random_sets[1] # pokemon[i].random_sets[2]

\* C17: delete and clean change the store only when the password given is
\* the configured admin password: with any other password the reply is the
\* invalid-password message, no store operation is invoked and the store is
\* unchanged; set and get take no password and are never refused for one.
C17_PasswordGate ==
    /\ (last.op \in {"cmd_delete", "cmd_clean"}) =>
          /\ (last.password # boot.admin_password) =>
                /\ last.reply = InvalidPasswordReply
                /\ last.calls = <<>>
                /\ pokemon = last.before
          /\ (last.password = boot.admin_password) =>
                /\ last.reply # InvalidPasswordReply
                /\ last.calls # <<>>
    /\ (last.op \in {"set", "cmd_get"}) =>
          /\ last.reply # InvalidPasswordReply
          /\ last.password = <<>>

\* a delete of an existing moveset was refused for a password that is the
\* beginning of the admin password
C17_Witness ==
    /\ last.op = "cmd_delete"
    /\ last.password # boot.admin_password
    /\ last.password # <<>>
    /\ last.password = SubSeq(boot.admin_password, 1, Len(last.password))
    /\ last.reply = InvalidPasswordReply
    /\ GetPokemonData(last.before, FormatPokemonName(last.name)).found
    /\ ValidSetIndex(last.set_index,
            GetPokemonData(last.before, FormatPokemonName(last.name)).random_sets)

\* what a user may type for a name
NameVariants ==
    {<<"a">>, <<"A">>, <<"e_acute">>, <<"E_ACUTE">>,
     <<"a", "-", "b">>, <<"A", "-", "B">>, <<"a", " ", "b">>, <<"A", " ", "b">>}

HasHyphen(name) == \E c \in DOMAIN name : name[c] = "-"

\* the row a command reaches for this input, if any
ReachedBy(tbl, input) == GetPokemonData(tbl, FormatPokemonName(input))

\* C20: get, set and delete query the store with the input lowercased and
\* its '-' replaced by spaces; so every entity whose stored name has no '-'
\* is reached by its name in any letter case, and an entity whose stored
\* name has a '-' is reached by no input.
C20_NamesReached ==
    /\ (last.op = "cmd_get") =>
          (last.reply # GenericReply("get")
              <=> GetPokemonData(last.before,
                                 Replace(PyLower(last.name), "-", " ")).found)
    /\ (last.op \in {"set", "cmd_delete"} /\ last.calls # <<>>) =>
          (last.reply # ErrorReply("not_found", Replace(PyLower(last.name), "-", " "))
              <=> GetPokemonData(last.before,
                                 Replace(PyLower(last.name), "-", " ")).found)
    /\ \A i \in DOMAIN pokemon :
          IF HasHyphen(pokemon[i].name)
          THEN \A q \in NameVariants :
                  ReachedBy(pokemon, q).found => ReachedBy(pokemon, q).id # pokemon[i].id
          ELSE \A q \in NameVariants :
                  SameLetters(q, pokemon[i].name) =>
                      /\ ReachedBy(pokemon, q).found
                      /\ ReachedBy(pokemon, q).id = pokemon[i].id

\* every task has returned
AllDone == \A t \in 1..MaxTasks : tasks[t].pc = "done"

\* the orders in which the tasks can run one after the other
Orders ==
    {o \in [1..MaxTasks -> 1..MaxTasks] :
        \A i, j \in 1..MaxTasks : i # j => o[i] # o[j]}

\* one call run alone on a table
ApplyCall(tbl, task) ==
    CASE task.op = "add" -> AddPokemonSet(tbl, task.name, task.new_set)
      [] task.op = "delete" -> DeletePokemonSet(tbl, task.name, task.set_index)
      [] task.op = "reset" -> [outcome |-> "ok", table |-> ResetDatabase(tbl)]

\* the table after the first k calls of a serial order
RECURSIVE SerialTable(_, _)
SerialTable(order, k) ==
    IF k = 0
    THEN last.before
    ELSE ApplyCall(SerialTable(order, k - 1), tasks[order[k]]).table

\* C13: whatever the interleaving of concurrent AppendMoveset, DeleteMoveset
\* and ResetAll calls, the final table and every call's outcome are those of
\* some serial execution of the calls (so no call reports success without
\* its mutation being in that serial execution's result).
C13_Serializable ==
    AllDone =>
        \E order \in Orders :
            /\ pokemon = SerialTable(order, MaxTasks)
            /\ \A k \in 1..MaxTasks :
                  tasks[order[k]].outcome =
                      ApplyCall(SerialTable(order, k - 1), tasks[order[k]]).outcome

\* an append and a delete for the same entity have both succeeded
C13_Witness ==
    /\ AllDone
    /\ \E t, u \in 1..MaxTasks :
          /\ tasks[t].op = "add"
          /\ tasks[u].op = "delete"
          /\ tasks[t].name = tasks[u].name
          /\ tasks[t].outcome = "ok"
          /\ tasks[u].outcome = "ok"
    /\ pokemon # last.before

\* the row with this id, as a set (empty when the table has no such row)
RowsWithId(tbl, id) == {tbl[i] : i \in {j \in DOMAIN tbl : tbl[j].id = id}}

\* the entity a task's name denoted when the calls were made
TargetOf(t) == GetPokemonData(last.before, tasks[t].name)

\* the calls are appends and deletes for pairwise different entities
DifferentEntities ==
    /\ \A t \in 1..MaxTasks : tasks[t].op \in {"add", "delete"}
    /\ \A t, u \in 1..MaxTasks :
          (t # u /\ TargetOf(t).found /\ TargetOf(u).found) =>
              TargetOf(t).id # TargetOf(u).id

\* C14: concurrent AppendMoveset/DeleteMoveset calls for different entities
\* each end with the outcome and the effect on their own row that they have
\* when run alone, no row of an entity that no call names changes, and the
\* manager's connection is never left open to another task.
C14_CallsIndependent ==
    /\ DifferentEntities =>
          /\ (running = 0) => ~connection.open
          /\ AllDone =>
                /\ \A t \in 1..MaxTasks :
                      LET alone == ApplyCall(last.before, tasks[t])
                      IN /\ tasks[t].outcome = alone.outcome
                         /\ TargetOf(t).found =>
                               RowsWithId(pokemon, TargetOf(t).id) =
                                   RowsWithId(alone.table, TargetOf(t).id)
                /\ \A i \in DOMAIN last.before :
                      (\A t \in 1..MaxTasks :
                          ~(TargetOf(t).found /\ TargetOf(t).id = last.before[i].id)) =>
                          RowsWithId(pokemon, last.before[i].id) = {last.before[i]}

\* an append for one entity and a delete for another have both succeeded
C14_Witness ==
    /\ AllDone
    /\ DifferentEntities
    /\ \E t, u \in 1..MaxTasks :
          /\ tasks[t].op = "add"
          /\ tasks[u].op = "delete"
          /\ tasks[t].outcome = "ok"
          /\ tasks[u].outcome = "ok"
          /\ TargetOf(t).id # TargetOf(u).id

\* the extension load has begun or ended
ExtensionLoadBegun ==
    \/ boot.pc \in {"load_extensions", "hash_admin_password", "ready"}
    \/ boot.cog_db_file # "none"
    \/ boot.commands # {}
    \/ boot.raised = "AttributeError"

\* C15: when the dataset file is missing or unparseable at startup, the
\* loader's exception reaches setup_hook, the load of the commands extension
\* is never begun, no command is ever registered, the store stays unseeded
\* and unserved, and the bot ends up closed.
C15_NoStartWithoutDataset ==
    /\ [](boot.dex_file # "json" =>
            /\ ~ExtensionLoadBegun
            /\ ~boot.db_initialized
            /\ pokemon = <<>>
            /\ (boot.pc \in {"setup_failed", "closed"} => boot.raised = "RuntimeError"))
    /\ (boot.dex_file # "json" ~> boot.closed)

\* setup_hook has closed the bot after the loader raised for a missing file
C15_Witness ==
    /\ boot.dex_file = "missing"
    /\ boot.raised = "RuntimeError"
    /\ boot.pc = "closed"
    /\ boot.closed

\* C18: whenever database initialization has succeeded, setup_hook loads the
\* commands extension: nothing is raised, the bot is not closed, and once
\* setup_hook has ended the cog's commands are registered.
C18_ExtensionLoaded ==
    boot.db_initialized =>
        /\ boot.raised = "none"
        /\ ~boot.closed
        /\ boot.pc \in {"load_extensions", "hash_admin_password", "ready"}
        /\ (boot.pc = "ready" => boot.commands = CogCommands)

\* C19: the database file of the cog's DatabaseManager is the file of the
\* bot's DatabaseManager, which the loader seeded, whatever DATABASE_FILE is.
C19_SameDatabaseFile ==
    (boot.cog_db_file # "none") => boot.cog_db_file = boot.bot_db_file

\* the entity the last command's name denoted before the command
LastCommandEntity == GetPokemonData(last.before, FormatPokemonName(last.name))

\* what the get command displays for the last command's name on the store
\* as it was before the command
ShownBefore == RetrievePokemonSets(last.before, last.files, last.name).fields

\* the sets a list of displayed fields holds, without the field numbered n
ShownWithout(fields, n) ==
    LET Kept(f) == f.name # n
        kept == SelectSeq(fields, Kept)
    IN [i \in DOMAIN kept |-> [item |-> kept[i].item, moves |-> kept[i].moves]]

\* C21: get displays the stored list in order, 'Set i' being list index
\* i-1; delete takes its set-id unadjusted as the zero-based index: set-id k
\* removes what get displays as 'Set k+1' (set-id 0 removes 'Set 1'), and a
\* set-id equal to the number of displayed sets is rejected as invalid.
C21_DisplayOneBasedDeleteZeroBased ==
    /\ (last.op = "cmd_get" /\ last.reply.kind = "embed") =>
          /\ Len(last.reply.fields) = Len(LastCommandEntity.random_sets)
          /\ \A i \in DOMAIN last.reply.fields :
                /\ last.reply.fields[i].name = i
                /\ last.reply.fields[i].item = LastCommandEntity.random_sets[i].item
                /\ last.reply.fields[i].moves = LastCommandEntity.random_sets[i].moves
    /\ (/\ last.op = "cmd_delete"
        /\ last.calls # <<>>
        /\ LastCommandEntity.found
        /\ LastCommandEntity.random_sets # <<>>) =>
          LET k == last.set_index
              n == Len(ShownBefore)
          IN /\ n = Len(LastCommandEntity.random_sets)
             /\ (0 <= k /\ k < n) =>
                   /\ last.reply.kind = "deleted"
                   /\ last.reply.set_id = k
                   /\ StoredSets(pokemon, LastCommandEntity.id) =
                          ShownWithout(ShownBefore, k + 1)
             /\ (k = n) =>
                   /\ last.reply = ErrorReply("invalid_index",
                                              FormatPokemonName(last.name))
                   /\ pokemon = last.before

\* delete with set-id 1 has removed the second of two different sets, the
\* one get displayed as 'Set 2'
C21_Witness ==
    /\ last.op = "cmd_delete"
    /\ last.set_index = 1
    /\ last.reply.kind = "deleted"
    /\ Len(ShownBefore) = 2
    /\ ShownBefore[2].name = 2
    /\ ShownBefore[1].item # ShownBefore[2].item
    /\ StoredSets(pokemon, LastCommandEntity.id) =
           <<[item |-> ShownBefore[1].item, moves |-> ShownBefore[1].moves]>>
====
